---- MODULE Spec2Model ----
(***************************************************************************)
(* Model of disulfide_finder.py: find_cys_residues (the per-line loop that *)
(* fills cys_data), find_disulfide_candidates (the loop over               *)
(* combinations(cys_data.items(), 2)), calc_distance, calc_dihedral and    *)
(* the part of main that chains them.                                      *)
(*                                                                         *)
(* Numbers.  A Python float is a record [nan, v]: nan = TRUE is IEEE NaN,  *)
(* otherwise v is the value.  Coordinates are counted in units of 0.5      *)
(* Angstrom (the text "1.500" is v = 3), quality values in units of 1.     *)
(* Every comparison with NaN is FALSE, as in IEEE 754.                     *)
(*                                                                         *)
(* A column of a line is a record [kind, val]: kind "num" is decimal text  *)
(* of value val, "nan" is the text nan (float() accepts it, int() does     *)
(* not), "bad" is text neither float() nor int() accepts, "empty" is a     *)
(* column the line is too short to hold.                                   *)
(*                                                                         *)
(* Inputs.  A file is any sequence of the lines of Lines in which the CYS  *)
(* residues come in ascending residue number: residues 1..MaxRes, each     *)
(* atom at one of the positions of Sites, each quality one of              *)
(* QualityTexts, plus malformed lines and lines that are not ATOM or not   *)
(* CYS.  main calls find_disulfide_candidates with its default ranges; the *)
(* model also runs it with the other ranges of DistRanges and AngleRanges. *)
(***************************************************************************)
EXTENDS Integers, Sequences, FiniteSets, TLC

VARIABLES
    is_alfaphold,   \* main: '--alphafold' in sys.argv[2:]
    pc,             \* position of the run
    line,           \* find_cys_residues: the loop variable, last line read
    cys_data,       \* find_cys_residues: the dict, as its items() in insertion order
    cys_ret,        \* main: cys_data, the value find_cys_residues returned
    dist_range,     \* find_disulfide_candidates: argument
    angle_range,    \* find_disulfide_candidates: argument
    todo,           \* find_disulfide_candidates: pairs combinations() has still to yield
    visited,        \* pairs the loop body has run for, in order
    dihedrals,      \* pairs calc_dihedral has been called for
    results,        \* find_disulfide_candidates: the list results
    resultados,     \* main: the value find_disulfide_candidates returned
    output          \* what main has printed

vars == <<is_alfaphold, pc, line, cys_data, cys_ret, dist_range, angle_range,
          todo, visited, dihedrals, results, resultados, output>>

-----------------------------------------------------------------------------
(* Bounds and program constants *)

MaxRes == 3         \* residue numbers 1..MaxRes carry CYS lines

bfactor == 35       \* default of find_cys_residues(bfactor=35)
pLDDT == 40         \* default of find_cys_residues(pLDDT=40)

-----------------------------------------------------------------------------
(* Floats *)

F(n) == [nan |-> FALSE, v |-> n]
NaN == [nan |-> TRUE, v |-> 0]

FAdd(a, b) == IF a.nan \/ b.nan THEN NaN ELSE F(a.v + b.v)
FSub(a, b) == IF a.nan \/ b.nan THEN NaN ELSE F(a.v - b.v)
FMul(a, b) == IF a.nan \/ b.nan THEN NaN ELSE F(a.v * b.v)
FLe(a, b) == ~a.nan /\ ~b.nan /\ a.v <= b.v
FLt(a, b) == ~a.nan /\ ~b.nan /\ a.v < b.v
FGt(a, b) == ~a.nan /\ ~b.nan /\ a.v > b.v

VSub(a, b) == <<FSub(a[1], b[1]), FSub(a[2], b[2]), FSub(a[3], b[3])>>
VScale(k, a) == <<FMul(k, a[1]), FMul(k, a[2]), FMul(k, a[3])>>
Dot(a, b) == FAdd(FAdd(FMul(a[1], b[1]), FMul(a[2], b[2])), FMul(a[3], b[3]))
Cross(a, b) == <<FSub(FMul(a[2], b[3]), FMul(a[3], b[2])),
                 FSub(FMul(a[3], b[1]), FMul(a[1], b[3])),
                 FSub(FMul(a[1], b[2]), FMul(a[2], b[1]))>>

-----------------------------------------------------------------------------
(* Python values main holds *)

Unassigned == [tag |-> "unassigned", val |-> <<>>]
PyNone == [tag |-> "None", val |-> <<>>]
PyDict(d) == [tag |-> "dict", val |-> d]
PyList(l) == [tag |-> "list", val |-> l]

\* bool(v) as `if cys_data:` and `if resultados:` take it
Truthy(v) == v.tag \in {"dict", "list"} /\ Len(v.val) > 0

-----------------------------------------------------------------------------
(* Column texts and their conversions *)

Num(n) == [kind |-> "num", val |-> n]
NanText == [kind |-> "nan", val |-> 0]
BadText == [kind |-> "bad", val |-> 0]
EmptyText == [kind |-> "empty", val |-> 0]

\* float(text): does it raise ValueError
FloatRaises(t) == t.kind \in {"bad", "empty"}
\* float(text) when it does not raise
ParseFloat(t) == IF t.kind = "nan" THEN NaN ELSE F(t.val)

\* int(text): does it raise ValueError
IntRaises(t) == t.kind # "num"
\* int(text) when it does not raise
ParseInt(t) == t.val

-----------------------------------------------------------------------------
(* The lines a file is made of *)

\* positions, in units of 0.5 Angstrom
PA == <<0, 0, 0>>       \* SG of residue 1 (and an alternate of residue 2)
PB == <<3, 0, 0>>       \* SG of residue 2: 1.5 A from PA
PF == <<8, 0, 0>>       \* SG of residues 3..: 2.5 A from PB, 4.0 A from PA
SiteCB1 == <<1, 1, 0>>      \* CB of residue 1
SiteCB2 == <<3, 0, 1>>      \* CB of residue 2
SiteCB3 == <<8, 1, 10>>     \* CB of residues 3..

XYZ(p) == <<Num(p[1]), Num(p[2]), Num(p[3])>>
NanXYZ == <<NanText, Num(0), Num(0)>>

\* the positions the file may give each atom of residue n
Sites(n, atom) ==
    IF n = 1 THEN (IF atom = "SG" THEN {XYZ(PA), NanXYZ} ELSE {XYZ(SiteCB1)})
    ELSE IF n = 2 THEN (IF atom = "SG" THEN {XYZ(PA), XYZ(PB)} ELSE {XYZ(SiteCB2)})
    ELSE (IF atom = "SG" THEN {XYZ(PF)} ELSE {XYZ(SiteCB3)})

AllSites == UNION { Sites(n, a) : n \in 1..MaxRes, a \in {"SG", "CB"} }

QualityTexts == {Num(35), Num(36), Num(39), Num(40), NanText}

MkLine(rec, resname, atom, chain, resnum, xyz, q) ==
    [rec |-> rec, resname |-> resname, atom |-> atom, chain |-> chain,
     resnum |-> resnum, x |-> xyz[1], y |-> xyz[2], z |-> xyz[3], q |-> q]

\* well-formed ATOM lines of CYS residues
CysLines ==
    { MkLine("ATOM", "CYS", s[2], "A", Num(s[1]), s[3], q) :
        s \in { t \in (1..MaxRes) \X {"SG", "CB"} \X AllSites : t[3] \in Sites(t[1], t[2]) },
        q \in QualityTexts }

\* ATOM lines of CYS residues with a column float() or int() rejects, or cut short
MalformedLines ==
    { MkLine("ATOM", "CYS", "SG", "A", BadText, XYZ(PA), Num(35)),
      MkLine("ATOM", "CYS", "SG", "A", NanText, XYZ(PA), Num(40)),
      MkLine("ATOM", "CYS", "SG", "A", Num(1), <<BadText, Num(0), Num(0)>>, Num(35)),
      MkLine("ATOM", "CYS", "CB", "A", Num(2), <<Num(0), Num(0), BadText>>, Num(40)),
      MkLine("ATOM", "CYS", "SG", "A", Num(1), XYZ(PA), BadText),
      MkLine("ATOM", "CYS", "SG", "A", Num(1), <<Num(0), EmptyText, EmptyText>>, EmptyText),
      MkLine("ATOM", "CYS", "SG", "", EmptyText, <<EmptyText, EmptyText, EmptyText>>, EmptyText) }

\* lines the loop does not look into: not ATOM, or not CYS
OtherLines ==
    { MkLine("HETATM", "CYS", "SG", "A", Num(1), XYZ(PB), NanText),
      MkLine("ATOM", "ALA", "CB", "A", Num(MaxRes + 1), XYZ(SiteCB3), NanText),
      MkLine("ATOM", "ALA", "CB", "A", BadText, <<BadText, BadText, BadText>>, BadText) }

Lines == CysLines \cup MalformedLines \cup OtherLines

NoLine == MkLine("", "", "", "", EmptyText, <<EmptyText, EmptyText, EmptyText>>, EmptyText)

-----------------------------------------------------------------------------
(* find_cys_residues *)

\* line.startswith('ATOM') and line[17:20].strip() == "CYS"
IsAtomCys(l) == l.rec = "ATOM" /\ l.resname = "CYS"

\* ParseRaises with the coordinate columns left unchecked
ParseRaisesNoCoords(l) ==
    \/ l.chain = ""
    \/ IntRaises(l.resnum)
    \/ FloatRaises(l.q)

\* lines 31-35: line[21] raises IndexError, int() or float() raises ValueError
ParseRaises(l) ==
    \/ l.chain = ""
    \/ IntRaises(l.resnum)
    \/ FloatRaises(l.x) \/ FloatRaises(l.y) \/ FloatRaises(l.z)
    \/ FloatRaises(l.q)

ResId(l) == <<l.chain, ParseInt(l.resnum)>>
Coord(l) == <<ParseFloat(l.x), ParseFloat(l.y), ParseFloat(l.z)>>
Uncertainty(l) == ParseFloat(l.q)

\* Dropped with the comparisons made >= and <=
DroppedAtThreshold(uncertainty, af) ==
    IF af THEN FLe(uncertainty, F(pLDDT)) ELSE FLe(F(bfactor), uncertainty)

\* lines 38-43: the atom is skipped (continue)
Dropped(uncertainty, af) ==
    IF af THEN FLt(uncertainty, F(pLDDT)) ELSE FGt(uncertainty, F(bfactor))

\* position of res_id in the dict, 0 when it is not a key
IndexOf(d, res_id) ==
    IF \E i \in 1..Len(d) : d[i].res_id = res_id
    THEN CHOOSE i \in 1..Len(d) : d[i].res_id = res_id
    ELSE 0

HasKey(d, res_id) == IndexOf(d, res_id) # 0

\* atoms[atom_name] = coord
SetAtom(atoms, atom_name, coord) ==
    [a \in (DOMAIN atoms) \cup {atom_name} |-> IF a = atom_name THEN coord ELSE atoms[a]]

\* Store that keeps the coordinate an atom name already has
StoreFirstWins(d, res_id, atom_name, coord) ==
    LET d1 == IF HasKey(d, res_id) THEN d
              ELSE Append(d, [res_id |-> res_id, atoms |-> <<>>])
        i == IndexOf(d1, res_id)
    IN IF atom_name \in DOMAIN d1[i].atoms THEN d1
       ELSE [d1 EXCEPT ![i].atoms = SetAtom(d1[i].atoms, atom_name, coord)]

\* lines 45-48: cys_data[res_id][atom_name] = (x, y, z), the key made when new
Store(d, res_id, atom_name, coord) ==
    LET d1 == IF HasKey(d, res_id) THEN d
              ELSE Append(d, [res_id |-> res_id, atoms |-> <<>>])
        i == IndexOf(d1, res_id)
    IN [d1 EXCEPT ![i].atoms = SetAtom(d1[i].atoms, atom_name, coord)]

\* line 51: cys_data if len(cys_data) > 0 else None
CysReturn(d) == IF Len(d) > 0 THEN PyDict(d) ELSE PyNone

\* one pass of the loop body for the line l (lines 26-48)
LoopBody(l) ==
    /\ pc = "reading"
    /\ line' = l
    /\ IF ~IsAtomCys(l)
       THEN UNCHANGED <<pc, cys_data>>
       ELSE IF ParseRaises(l)
       THEN pc' = "aborted" /\ UNCHANGED cys_data
       ELSE IF Dropped(Uncertainty(l), is_alfaphold)
       THEN UNCHANGED <<pc, cys_data>>
       ELSE /\ cys_data' = Store(cys_data, ResId(l), l.atom, Coord(l))
            /\ UNCHANGED pc
    /\ UNCHANGED <<is_alfaphold, cys_ret, dist_range, angle_range, todo, visited,
                   dihedrals, results, resultados, output>>

\* end of file: lines 49-51, and main's assignment at line 174; the loop
\* variable goes with the frame
EndOfFile ==
    /\ pc = "reading"
    /\ cys_ret' = CysReturn(cys_data)
    /\ pc' = "parsed"
    /\ line' = NoLine
    /\ UNCHANGED <<is_alfaphold, cys_data, dist_range, angle_range, todo,
                   visited, dihedrals, results, resultados, output>>

-----------------------------------------------------------------------------
(* calc_distance, calc_dihedral *)

\* np.linalg.norm(a - b), held as its square: the norm d is the float with
\* d * d = sq, and lo <= d is lo * lo <= sq for lo >= 0
calc_distance(a, b) ==
    LET n2 == Dot(VSub(a, b), VSub(a, b))
    IN [nan |-> n2.nan, sq |-> n2.v]

\* InDistRange with both bounds excluded
InDistRangeExclusive(dist, range) ==
    /\ ~dist.nan
    /\ range[1] * range[1] < dist.sq
    /\ dist.sq < range[2] * range[2]

\* dist_range[0] <= dist <= dist_range[1]
InDistRange(dist, range) ==
    /\ ~dist.nan
    /\ range[1] * range[1] <= dist.sq
    /\ dist.sq <= range[2] * range[2]

\* calc_dihedral that raises on a zero-length b1, as a division of Python
\* floats would
calc_dihedral_raising(p1, p2, p3, p4) ==
    LET b0 == VSub(p2, p1)
        b1 == VSub(p3, p2)
        b2 == VSub(p4, p3)
        n2 == Dot(b1, b1)
        V == VSub(VScale(n2, b0), VScale(Dot(b0, b1), b1))
        W == VSub(VScale(n2, b2), VScale(Dot(b2, b1), b1))
        X == Dot(V, W)
        Y == Dot(Cross(b1, V), W)
    IN IF n2.nan \/ n2.v = 0 \/ X.nan \/ Y.nan
       THEN [raised |-> ~n2.nan /\ n2.v = 0, nan |-> TRUE, x |-> 0, y |-> 0, n2 |-> 0]
       ELSE [raised |-> FALSE, nan |-> FALSE, x |-> X.v \div n2.v,
             y |-> Y.v \div (n2.v * n2.v), n2 |-> n2.v]

\* np.degrees(np.arctan2(y, x)) of lines 81-98.  With n = |b1| > 0, the code's
\* v = b0 - (b0.u) u and w = b2 - (b2.u) u for u = b1 / n are V / n^2 and
\* W / n^2 for the integer vectors V = n^2 b0 - (b0.b1) b1, W = n^2 b2 - (b2.b1) b1,
\* so its x = v.w is (V.W) / n^4 and its y = (u x v).w is ((b1 x V).W) / n^5.
\* V.W is a multiple of n^2 and (b1 x V).W one of n^4; with X = (V.W) / n^2 and
\* Y = ((b1 x V).W) / n^4 the angle is atan2(Y n, X), and the record holds X, Y
\* and n2 = n^2.  With n = 0 line 85 divides 0.0 by 0.0: numpy warns and stores
\* NaN, and every later value is NaN.  raised: the call ended in an exception.
calc_dihedral(p1, p2, p3, p4) ==
    LET b0 == VSub(p2, p1)
        b1 == VSub(p3, p2)
        b2 == VSub(p4, p3)
        n2 == Dot(b1, b1)
        V == VSub(VScale(n2, b0), VScale(Dot(b0, b1), b1))
        W == VSub(VScale(n2, b2), VScale(Dot(b2, b1), b1))
        X == Dot(V, W)
        Y == Dot(Cross(b1, V), W)
    IN IF n2.nan \/ n2.v = 0 \/ X.nan \/ Y.nan
       THEN [raised |-> FALSE, nan |-> TRUE, x |-> 0, y |-> 0, n2 |-> 0]
       ELSE [raised |-> FALSE, nan |-> FALSE, x |-> X.v \div n2.v,
             y |-> Y.v \div (n2.v * n2.v), n2 |-> n2.v]

\* tan(84 deg) * |x| <= |y| for the angle atan2(y, x) = atan2(Y n, X), that
\* is tan(84 deg)^2 * X^2 <= Y^2 * n2, with tan(84 deg)^2 = 90.52313...
\* taken as 90 + 52313 / 100000
Steep(chi) ==
    LET a == chi.x * chi.x
        b == chi.y * chi.y * chi.n2
        r == b - 90 * a
    IN r >= 0 /\ (r >= a \/ r * 100000 >= 52313 * a)

\* deg <= abs(chi_ss), for the bounds the model passes.  atan2(0, 0) is 0.
AbsGe(chi, deg) ==
    /\ ~chi.nan
    /\ IF deg = 0 THEN TRUE
       ELSE IF chi.x = 0 /\ chi.y = 0 THEN FALSE
       ELSE IF deg = 84 THEN chi.x <= 0 \/ Steep(chi)
       ELSE FALSE

\* abs(chi_ss) <= deg, for the bounds the model passes
AbsLe(chi, deg) ==
    /\ ~chi.nan
    /\ IF deg = 180 THEN TRUE
       ELSE IF deg = 96 THEN chi.x >= 0 \/ Steep(chi)
       ELSE FALSE

\* angle_range[0] <= abs(chi_ss) <= angle_range[1]
InAngleRange(chi, range) == AbsGe(chi, range[1]) /\ AbsLe(chi, range[2])

-----------------------------------------------------------------------------
(* find_disulfide_candidates *)

DefaultDistRange == <<3, 5>>       \* (1.5, 2.5) Angstrom
DefaultAngleRange == <<84, 96>>
DistRanges == {DefaultDistRange, <<0, 8>>}
AngleRanges == {DefaultAngleRange, <<0, 180>>}

\* the index pairs of combinations(items, 2) over n items, in the order yielded
RECURSIVE PairsFrom(_, _, _)
PairsFrom(i, j, n) ==
    IF i >= n THEN <<>>
    ELSE IF j > n THEN PairsFrom(i + 1, i + 2, n)
    ELSE <<(<<i, j>>)>> \o PairsFrom(i, j + 1, n)

\* Combinations as the product of the items with themselves
AllOrderedPairs(n) == [k \in 1..(n * n) |-> <<((k - 1) \div n) + 1, ((k - 1) % n) + 1>>]

Combinations(n) == PairsFrom(1, 2, n)

\* all(atom in atoms for atom in ('SG', 'CB'))
HasSGCB(atoms) == "SG" \in DOMAIN atoms /\ "CB" \in DOMAIN atoms

\* BothHaveSGCB that looks for SG alone
BothHaveSG(atoms1, atoms2) == "SG" \in DOMAIN atoms1 /\ "SG" \in DOMAIN atoms2

\* line 119
BothHaveSGCB(atoms1, atoms2) == HasSGCB(atoms1) /\ HasSGCB(atoms2)

\* atoms['SG'], atoms['CB'] of lines 121-124 raise KeyError on a missing name
LookupRaises(atoms1, atoms2) ==
    ~({"SG", "CB"} \subseteq DOMAIN atoms1 /\ {"SG", "CB"} \subseteq DOMAIN atoms2)

Candidate(res1, res2, dist, chi) ==
    [res1 |-> res1, res2 |-> res2, dist |-> dist, chi_ss |-> chi]

\* SearchReturnValue that returns the list also when it is empty
SearchReturnList(r) == PyList(r)

\* line 140: results if len(results) > 0 else None
SearchReturnValue(r) == IF Len(r) > 0 THEN PyList(r) ELSE PyNone

NoRes == <<"", 0>>
\* line 187
NoCysMessage == [msg |-> "no CYS of sufficient quality", res1 |-> NoRes, res2 |-> NoRes]
\* line 184
NoPairMessage == [msg |-> "no spatially compatible CYS", res1 |-> NoRes, res2 |-> NoRes]
\* line 182
BondLine(c) == [msg |-> "potential disulfide bond", res1 |-> c.res1, res2 |-> c.res2]

\* MainCallSearch without the test of line 176
MainCallSearchUnguarded ==
    /\ pc = "parsed"
    /\ dist_range' \in DistRanges
    /\ angle_range' \in AngleRanges
    /\ results' = <<>>
    /\ todo' = Combinations(Len(cys_ret.val))
    /\ visited' = <<>>
    /\ dihedrals' = {}
    /\ pc' = "searching"
    /\ UNCHANGED <<is_alfaphold, line, cys_data, cys_ret, resultados, output>>

\* main, lines 176-177: cys_data is truthy, find_disulfide_candidates is entered.
\* main passes the default ranges; the other ranges are the function called
\* with its arguments given.
MainCallSearch ==
    /\ pc = "parsed"
    /\ Truthy(cys_ret)
    /\ dist_range' \in DistRanges
    /\ angle_range' \in AngleRanges
    /\ results' = <<>>
    /\ todo' = Combinations(Len(cys_ret.val))
    /\ visited' = <<>>
    /\ dihedrals' = {}
    /\ pc' = "searching"
    /\ UNCHANGED <<is_alfaphold, line, cys_data, cys_ret, resultados, output>>

\* main, lines 186-187
MainNoCys ==
    /\ pc = "parsed"
    /\ ~Truthy(cys_ret)
    /\ output' = Append(output, NoCysMessage)
    /\ pc' = "done"
    /\ UNCHANGED <<is_alfaphold, line, cys_data, cys_ret, dist_range, angle_range,
                   todo, visited, dihedrals, results, resultados>>

\* one pass of the loop body of lines 118-138, for the next pair
SearchStep ==
    /\ pc = "searching"
    /\ todo # <<>>
    /\ LET p == Head(todo)
           e1 == cys_ret.val[p[1]]
           e2 == cys_ret.val[p[2]]
           SG1 == e1.atoms["SG"]
           SG2 == e2.atoms["SG"]
           CB1 == e1.atoms["CB"]
           CB2 == e2.atoms["CB"]
           dist == calc_distance(SG1, SG2)
           chi_ss == calc_dihedral(CB1, SG1, SG2, CB2)
       IN /\ todo' = Tail(todo)
          /\ visited' = Append(visited, <<e1.res_id, e2.res_id>>)
          /\ IF ~BothHaveSGCB(e1.atoms, e2.atoms)
             THEN UNCHANGED <<pc, dihedrals, results>>
             ELSE IF LookupRaises(e1.atoms, e2.atoms)
             THEN pc' = "aborted" /\ UNCHANGED <<dihedrals, results>>
             ELSE IF ~InDistRange(dist, dist_range)
             THEN UNCHANGED <<pc, dihedrals, results>>
             ELSE /\ dihedrals' = dihedrals \cup {<<e1.res_id, e2.res_id>>}
                  /\ IF chi_ss.raised
                     THEN pc' = "aborted" /\ UNCHANGED results
                     ELSE IF InAngleRange(chi_ss, angle_range)
                     THEN /\ results' = Append(results, Candidate(e1.res_id, e2.res_id, dist, chi_ss))
                          /\ UNCHANGED pc
                     ELSE UNCHANGED <<pc, results>>
    /\ UNCHANGED <<is_alfaphold, line, cys_data, cys_ret, dist_range, angle_range,
                   resultados, output>>

\* combinations() is exhausted: line 140, and main's assignment at line 177
SearchReturn ==
    /\ pc = "searching"
    /\ todo = <<>>
    /\ resultados' = SearchReturnValue(results)
    /\ pc' = "searched"
    /\ UNCHANGED <<is_alfaphold, line, cys_data, cys_ret, dist_range, angle_range,
                   todo, visited, dihedrals, results, output>>

\* main, lines 179-184
MainReport ==
    /\ pc = "searched"
    /\ IF Truthy(resultados)
       THEN output' = output \o [i \in 1..Len(resultados.val) |-> BondLine(resultados.val[i])]
       ELSE output' = Append(output, NoPairMessage)
    /\ pc' = "done"
    /\ UNCHANGED <<is_alfaphold, line, cys_data, cys_ret, dist_range, angle_range,
                   todo, visited, dihedrals, results, resultados>>

-----------------------------------------------------------------------------

Init ==
    /\ is_alfaphold \in BOOLEAN
    /\ pc = "reading"
    /\ line = NoLine
    /\ cys_data = <<>>
    /\ cys_ret = Unassigned
    /\ dist_range = DefaultDistRange
    /\ angle_range = DefaultAngleRange
    /\ todo = <<>>
    /\ visited = <<>>
    /\ dihedrals = {}
    /\ results = <<>>
    /\ resultados = Unassigned
    /\ output = <<>>

\* the files read list their CYS residues in ascending residue number, as
\* structure files do: a well-formed ATOM/CYS line never names a residue
\* below the last key stored
InFileOrder(l) ==
    (IsAtomCys(l) /\ ~ParseRaises(l) /\ Len(cys_data) > 0)
        => ParseInt(l.resnum) >= cys_data[Len(cys_data)].res_id[2]

Next ==
    \/ \E l \in Lines : InFileOrder(l) /\ LoopBody(l)
    \/ EndOfFile
    \/ MainCallSearch
    \/ MainNoCys
    \/ SearchStep
    \/ SearchReturn
    \/ MainReport

Spec == Init /\ [][Next]_vars

-----------------------------------------------------------------------------
(* Vocabulary of the properties *)

HasCell(d, res_id, atom) ==
    HasKey(d, res_id) /\ atom \in DOMAIN d[IndexOf(d, res_id)].atoms

CellVal(d, res_id, atom) == d[IndexOf(d, res_id)].atoms[atom]

\* the (key, atom name) pairs of a dict
Cells(d) == UNION { { <<d[i].res_id, a>> : a \in DOMAIN d[i].atoms } : i \in 1..Len(d) }

\* a column whose text is no number, or that the line is too short to hold
NotDecimal(t) == t.kind \in {"bad", "empty"}

\* an ATOM line of a CYS residue with such text in a column the loop converts
Malformed(l) ==
    /\ l.rec = "ATOM" /\ l.resname = "CYS"
    /\ \/ l.chain = ""
       \/ NotDecimal(l.resnum) \/ l.resnum.kind = "nan"
       \/ NotDecimal(l.x) \/ NotDecimal(l.y) \/ NotDecimal(l.z)
       \/ NotDecimal(l.q)

\* a well-formed ATOM line of a CYS residue
WellFormedCys(l) == l.rec = "ATOM" /\ l.resname = "CYS" /\ ~Malformed(l)

\* the threshold test as the specification words it: keep only when
\* quality <= bfactor, or quality >= pLDDT for a predicted structure
WithinThreshold(q, af) == IF af THEN FLe(F(pLDDT), q) ELSE FLe(q, F(bfactor))

\* the threshold test as a rejection: quality > bfactor, or quality < pLDDT
BeyondThreshold(q, af) == IF af THEN FLt(q, F(pLDDT)) ELSE FGt(q, F(bfactor))

\* a step of the reading loop
ReadStep == pc = "reading" /\ pc' \in {"reading", "aborted"}

\* the search has been entered
SearchEntered == pc \in {"searching", "searched"} \/ resultados # Unassigned \/ visited # <<>>

\* the exception of an aborted run was raised inside find_disulfide_candidates
SearchCrashed == pc = "aborted" /\ cys_ret # Unassigned

AtomsOf(res_id) == cys_ret.val[IndexOf(cys_ret.val, res_id)].atoms

ResultPairs == { <<results[i].res1, results[i].res2>> : i \in 1..Len(results) }

VisitedPairs == { visited[i] : i \in 1..Len(visited) }

NoSelfNoRepeat(pairs) ==
    /\ \A i \in 1..Len(pairs) : pairs[i][1] # pairs[i][2]
    /\ \A i, j \in 1..Len(pairs) :
          i # j => {pairs[i][1], pairs[i][2]} # {pairs[j][1], pairs[j][2]}

Complete(p) == HasSGCB(AtomsOf(p[1])) /\ HasSGCB(AtomsOf(p[2]))

SGDist(p) == calc_distance(AtomsOf(p[1])["SG"], AtomsOf(p[2])["SG"])

SGCoincide(p) ==
    /\ Complete(p)
    /\ ~SGDist(p).nan
    /\ SGDist(p).sq = 0

\* dist_range[0] <= distance <= dist_range[1], on the square of the distance
WithinDistRange(p) ==
    /\ ~SGDist(p).nan
    /\ dist_range[1] * dist_range[1] <= SGDist(p).sq
    /\ SGDist(p).sq <= dist_range[2] * dist_range[2]

PairChi(p) == calc_dihedral(AtomsOf(p[1])["CB"], AtomsOf(p[1])["SG"],
                           AtomsOf(p[2])["SG"], AtomsOf(p[2])["CB"])

\* every unordered pair of keys of the map searched, first-inserted first
AllPairs ==
    { <<cys_ret.val[q[1]].res_id, cys_ret.val[q[2]].res_id>> :
        q \in { r \in (1..Len(cys_ret.val)) \X (1..Len(cys_ret.val)) : r[1] < r[2] } }

Printed(m) == \E i \in 1..Len(output) : output[i] = m

-----------------------------------------------------------------------------
(* Properties of find_cys_residues *)

\* C1: whenever the loop stores or changes an atom of the map, the line just
\* read starts with ATOM, names the residue CYS, carries that key, atom name
\* and coordinate, and its quality is within the threshold (quality <= bfactor,
\* or quality >= pLDDT for a predicted structure); the map starts empty.
C1_StoredAtomWithinThreshold ==
    [][ReadStep =>
         \A c \in Cells(cys_data') :
            (~HasCell(cys_data, c[1], c[2])
               \/ CellVal(cys_data, c[1], c[2]) # CellVal(cys_data', c[1], c[2]))
            => /\ WellFormedCys(line')
               /\ ResId(line') = c[1]
               /\ line'.atom = c[2]
               /\ Coord(line') = CellVal(cys_data', c[1], c[2])
               /\ WithinThreshold(Uncertainty(line'), is_alfaphold)]_vars

\* C2: a well-formed ATOM/CYS line whose quality equals the active threshold
\* leaves its atom in the map with the line's coordinate, and an atom is
\* left out only when quality > bfactor (experimental) or quality < pLDDT
\* (predicted).
C2_ThresholdInclusive ==
    [][(ReadStep /\ WellFormedCys(line')) =>
         LET q == Uncertainty(line')
             kept == /\ HasCell(cys_data', ResId(line'), line'.atom)
                     /\ CellVal(cys_data', ResId(line'), line'.atom) = Coord(line')
         IN /\ q = F(IF is_alfaphold THEN pLDDT ELSE bfactor) => kept
            /\ ~kept => BeyondThreshold(q, is_alfaphold)]_vars

\* C2 witness: experimental mode, the line read has quality exactly bfactor
\* and its atom is in the map.
C2_Witness ==
    /\ pc = "reading" /\ ~is_alfaphold
    /\ WellFormedCys(line)
    /\ Uncertainty(line) = F(bfactor)
    /\ HasCell(cys_data, ResId(line), line.atom)
    /\ CellVal(cys_data, ResId(line), line.atom) = Coord(line)

\* C7: once a malformed ATOM/CYS line is read the run is aborted, no value was
\* returned to main, the search was not entered and nothing was printed, and
\* no step is taken from an aborted run.
C7_MalformedLineAborts ==
    [][/\ pc # "aborted"
       /\ (Malformed(line') =>
            /\ pc' = "aborted"
            /\ cys_ret' = Unassigned
            /\ resultados' = Unassigned
            /\ visited' = <<>>
            /\ output' = <<>>
            /\ cys_data' = cys_data)]_vars

\* C7 witness: a predicted-structure run aborted on a line with a bad x column
\* whose quality 35 is below pLDDT, after atoms had been stored.
C7_Witness ==
    /\ pc = "aborted" /\ is_alfaphold
    /\ line.x.kind = "bad"
    /\ line.q = Num(35)
    /\ Len(cys_data) > 0

\* C9: a well-formed ATOM/CYS line that the threshold does not reject sets
\* its (key, atom name) to its coordinate and changes no other entry; any
\* other line leaves the map as it was; no key is held twice.
C9_LastKeptLineWins ==
    [][ReadStep =>
         /\ IF WellFormedCys(line') /\ ~BeyondThreshold(Uncertainty(line'), is_alfaphold)
            THEN /\ Cells(cys_data') = Cells(cys_data) \cup {<<ResId(line'), line'.atom>>}
                 /\ CellVal(cys_data', ResId(line'), line'.atom) = Coord(line')
                 /\ \A c \in Cells(cys_data) :
                       c # <<ResId(line'), line'.atom>>
                       => CellVal(cys_data', c[1], c[2]) = CellVal(cys_data, c[1], c[2])
            ELSE cys_data' = cys_data
         /\ \A i, j \in 1..Len(cys_data') :
               i # j => cys_data'[i].res_id # cys_data'[j].res_id]_vars

\* C9 witness: the line read is rejected by the threshold and the map still
\* holds another coordinate for its key and atom name.
C9_Witness ==
    /\ pc = "reading"
    /\ WellFormedCys(line)
    /\ BeyondThreshold(Uncertainty(line), is_alfaphold)
    /\ HasCell(cys_data, ResId(line), line.atom)
    /\ CellVal(cys_data, ResId(line), line.atom) # Coord(line)

-----------------------------------------------------------------------------
(* Properties of find_disulfide_candidates and main *)

\* C3: the pairs the loop body runs for, and the pairs of the candidates
\* found and returned, never hold a key paired with itself and never hold the
\* same unordered pair of keys twice.
C3_NoSelfPairNoRepeat ==
    /\ NoSelfNoRepeat(visited)
    /\ NoSelfNoRepeat([i \in 1..Len(results) |-> <<results[i].res1, results[i].res2>>])
    /\ resultados.tag = "list" =>
          NoSelfNoRepeat([i \in 1..Len(resultados.val) |->
                            <<resultados.val[i].res1, resultados.val[i].res2>>])

\* C3 witness: a search over three residues has returned two candidates.
C3_Witness ==
    /\ pc = "searched"
    /\ Len(visited) = 3
    /\ resultados.tag = "list"
    /\ Len(resultados.val) >= 2

\* C4: for every pair the loop body has run for whose residues both have SG
\* and CB, calc_dihedral was called if and only if
\* dist_range[0] <= SG-SG distance <= dist_range[1], both bounds included.
C4_DihedralIffWithinDistance ==
    \A p \in VisitedPairs :
        /\ Complete(p) => (p \in dihedrals <=> WithinDistRange(p))
        /\ ~Complete(p) => p \notin dihedrals

\* C4 witness: with the default range (1.5, 2.5) one search met a pair at
\* exactly 1.5 A and a pair at exactly 2.5 A, both taken to calc_dihedral, and
\* a complete pair outside the range that was not.
C4_Witness ==
    /\ pc = "searched"
    /\ dist_range = DefaultDistRange
    /\ \E p \in dihedrals : SGDist(p).sq = 3 * 3
    /\ \E p \in dihedrals : SGDist(p).sq = 5 * 5
    /\ \E p \in VisitedPairs : Complete(p) /\ p \notin dihedrals

\* C5 as claimed: the value find_disulfide_candidates returns when it found
\* no candidate differs from the value find_cys_residues returns for a map
\* without keys.
C5_SentinelsDiffer ==
    (resultados # Unassigned /\ results = <<>>) => resultados # CysReturn(<<>>)

\* C5 as amended: both empty outcomes are the one value None.
\* find_cys_residues returns None exactly when its map has no key and the map
\* otherwise; find_disulfide_candidates returns None exactly when it found no
\* candidate and the list otherwise; main tells the two apart by the call
\* that returned None, and prints a different message for each.
C5_BothSentinelsNone ==
    /\ cys_ret # Unassigned =>
          cys_ret = (IF Len(cys_data) = 0 THEN PyNone ELSE PyDict(cys_data))
    /\ resultados # Unassigned =>
          resultados = (IF Len(results) = 0 THEN PyNone ELSE PyList(results))
    /\ pc = "done" =>
          /\ cys_ret = PyNone => output = <<NoCysMessage>>
          /\ resultados = PyNone => output = <<NoPairMessage>>

\* C5 witness: a run has ended whose search returned None for a map with keys.
C5_Witness ==
    /\ pc = "done"
    /\ cys_ret.tag = "dict"
    /\ resultados = PyNone
    /\ output = <<NoPairMessage>>

\* C6: the search is entered if and only if find_cys_residues returned a map
\* with a key; a run whose map was empty ends with the 'no qualifying
\* cysteines' message alone; the 'no compatible pairs' message is printed only
\* after a search of a non-empty map that found no candidate.
C6_SearchIffMapNonEmpty ==
    /\ SearchEntered => (cys_ret.tag = "dict" /\ Len(cys_ret.val) > 0)
    /\ (pc = "done" /\ cys_ret.tag = "dict") => SearchEntered
    /\ (pc = "done" /\ cys_ret = PyNone) => (~SearchEntered /\ output = <<NoCysMessage>>)
    /\ Printed(NoCysMessage) => (cys_ret = PyNone /\ ~SearchEntered)
    /\ Printed(NoPairMessage) =>
          (cys_ret.tag = "dict" /\ Len(cys_ret.val) > 0 /\ resultados = PyNone /\ results = <<>>)

\* C6 witness: a run whose file stored no atom has ended with the 'no
\* qualifying cysteines' message and without a search.
C6_Witness ==
    /\ pc = "done"
    /\ cys_ret = PyNone
    /\ ~SearchEntered
    /\ output = <<NoCysMessage>>

\* C8: no exception is raised inside the search; a complete pair whose two SG
\* coincide is never among the candidates; and a finished search has run the
\* loop body for every pair of keys and holds exactly the complete pairs that
\* satisfy both ranges.
C8_CoincidentSGSkipped ==
    /\ ~SearchCrashed
    /\ \A p \in VisitedPairs : SGCoincide(p) => p \notin ResultPairs
    /\ pc = "searched" =>
          /\ VisitedPairs = AllPairs
          /\ ResultPairs = { p \in AllPairs :
                               /\ Complete(p)
                               /\ WithinDistRange(p)
                               /\ InAngleRange(PairChi(p), angle_range) }

\* C8 witness: a search whose dist_range holds 0 took a pair of coincident SG
\* to calc_dihedral, and returned a candidate from a pair it met afterwards.
C8_Witness ==
    /\ pc = "searched"
    /\ dist_range[1] = 0
    /\ \E i \in 1..Len(visited) :
          /\ SGCoincide(visited[i])
          /\ visited[i] \in dihedrals
          /\ \E j \in (i + 1)..Len(visited) : visited[j] \in ResultPairs

\* C10: a pair with SG or CB missing on either side is neither taken to
\* calc_dihedral nor returned, raises no exception, and does not stop the
\* scan: a finished search has run the loop body for every pair of keys; every
\* candidate has SG and CB on both residues.
C10_IncompletePairSkipped ==
    /\ ~SearchCrashed
    /\ \A p \in VisitedPairs : ~Complete(p) => (p \notin dihedrals /\ p \notin ResultPairs)
    /\ \A p \in ResultPairs : Complete(p)
    /\ pc = "searched" => VisitedPairs = AllPairs

\* C10 witness: a finished search skipped a pair with a missing atom and
\* returned a candidate from a pair it met afterwards.
C10_Witness ==
    /\ pc = "searched"
    /\ \E i \in 1..Len(visited) :
          /\ ~Complete(visited[i])
          /\ \E j \in (i + 1)..Len(visited) : visited[j] \in ResultPairs

====
